---- MODULE Spec2Model ----
(***************************************************************************)
(* compute_lambda.py: the genomic inflation factor (lambda, lambda1000) of *)
(* GWAS result files.  The model follows main() and check_args() step by   *)
(* step: the argument checks, the reading of the marker list, and one      *)
(* iteration of the file loop per input file.                              *)
(*                                                                         *)
(* Numbers.  A float is modelled as an exact rational <<n, d>> in lowest   *)
(* terms with d > 0, and the three IEEE specials as d = 0:                 *)
(*   <<1, 0>> = +inf,  <<-1, 0>> = -inf,  <<0, 0>> = NaN.                  *)
(* Rounding error of the binary representation is not modelled.            *)
(***************************************************************************)
EXTENDS Integers, Sequences, FiniteSets, TLC

\* ------------------------------------------------------------- bounds
\* The longest statistic column of the estimator's input family.
MaxRows == 4
\* The largest number of input files (-i) of the control-flow family.
MaxFiles == 2
\* The longest header line (in characters) of the header family.
MaxHeaderLen == 3
\* The case/control counts given to -n are CountStep, 2 * CountStep, ...,
\* MaxCount * CountStep.
MaxCount == 2
CountStep == 250

\* ------------------------------------------------------------- numbers
NaN == <<0, 0>>
PosInf == <<1, 0>>
NegInf == <<-1, 0>>

Abs(x) == IF x < 0 THEN -x ELSE x
Sgn(x) == IF x < 0 THEN -1 ELSE IF x > 0 THEN 1 ELSE 0

RECURSIVE Gcd(_, _)
Gcd(a, b) == IF b = 0 THEN a ELSE Gcd(b, a % b)

\* The rational n/d (d # 0) in lowest terms with a positive denominator.
Rat(n, d) ==
    LET g == Gcd(Abs(n), Abs(d))
        s == IF d < 0 THEN -1 ELSE 1
    IN  <<s * (n \div g), s * (d \div g)>>

Int2Float(k) == <<k, 1>>
Zero == <<0, 1>>
One == <<1, 1>>
Half == <<1, 2>>

IsNaN(x) == x = NaN
IsFinite(x) == x[2] # 0

\* IEEE multiplication: NaN absorbs, inf * 0 = NaN, the signs multiply.
Mul(a, b) ==
    IF a[2] = 0 \/ b[2] = 0
    THEN <<Sgn(a[1]) * Sgn(b[1]), 0>>
    ELSE LET g1 == Gcd(Abs(a[1]), b[2])
             g2 == Gcd(Abs(b[1]), a[2])
         IN  IF a[1] = 0 \/ b[1] = 0 THEN Zero
             ELSE <<(a[1] \div g1) * (b[1] \div g2),
                    (a[2] \div g2) * (b[2] \div g1)>>

\* IEEE addition: NaN absorbs, inf + (-inf) = NaN.
Add(a, b) ==
    IF a[2] = 0 /\ b[2] = 0 THEN (IF a = b THEN a ELSE NaN)
    ELSE IF a[2] = 0 THEN a
    ELSE IF b[2] = 0 THEN b
    ELSE Rat(a[1] * b[2] + b[1] * a[2], a[2] * b[2])

Neg(a) == <<-a[1], a[2]>>
Sub(a, b) == Add(a, Neg(b))

\* a / b for a finite b # 0 (the only divisors of the program are
\* EXPECTED_MEDIAN and the positive counts ncase, ncontrol).
Div(a, b) == Mul(a, Rat(b[2], b[1]))

\* a < b on floats: false when either is NaN.
Less(a, b) ==
    IF IsNaN(a) \/ IsNaN(b) THEN FALSE
    ELSE IF a[2] = 0 /\ b[2] = 0 THEN a[1] < b[1]
    ELSE IF a[2] = 0 THEN a[1] < 0
    ELSE IF b[2] = 0 THEN b[1] > 0
    ELSE a[1] * b[2] < b[1] * a[2]

Leq(a, b) == Less(a, b) \/ (~IsNaN(a) /\ a = b)

\* stats ** 2
Square(a) == Mul(a, a)

\* ---------------------------------------------------------- statistics
\* The quantiles of the standard normal distribution at k/32, k = 16..31,
\* in units of 1/40 (0.6745 ~ 27/40 at 3/4).
PpfTable ==
    [k \in 16..31 |->
        CASE k = 16 -> 0  [] k = 17 -> 3  [] k = 18 -> 6  [] k = 19 -> 9
          [] k = 20 -> 13 [] k = 21 -> 16 [] k = 22 -> 20 [] k = 23 -> 23
          [] k = 24 -> 27 [] k = 25 -> 31 [] k = 26 -> 35 [] k = 27 -> 40
          [] k = 28 -> 46 [] k = 29 -> 53 [] k = 30 -> 61 [] k = 31 -> 75]

\* scipy.stats.norm.ppf(q): NaN outside [0, 1], -inf at 0, +inf at 1, odd
\* about 1/2; inside (0, 1) the table's value at the grid point at or
\* below q (the inputs of the model lie on the grid).
NormPpf(q) ==
    IF ~IsFinite(q) THEN NaN
    ELSE IF Less(q, Zero) \/ Less(One, q) THEN NaN
    ELSE IF q = Zero THEN NegInf
    ELSE IF q = One THEN PosInf
    ELSE IF Less(q, Half)
         THEN LET r == Sub(One, q)
              IN  Rat(-PpfTable[(r[1] * 32) \div r[2]], 40)
         ELSE Rat(PpfTable[(q[1] * 32) \div q[2]], 40)

\* scipy.stats.chi2.ppf(q, 1): the square of the normal quantile at
\* (1 + q) / 2.
Chi2Ppf1(q) == Square(NormPpf(Div(Add(One, q), Int2Float(2))))

EXPECTED_MEDIAN == Chi2Ppf1(Half)

RECURSIVE Insert(_, _)
Insert(x, s) ==
    IF s = <<>> THEN <<x>>
    ELSE IF Less(s[1], x) THEN <<s[1]>> \o Insert(x, Tail(s))
    ELSE <<x>> \o s

RECURSIVE Sort(_)
Sort(s) == IF s = <<>> THEN <<>> ELSE Insert(s[1], Sort(Tail(s)))

HasNaN(s) == \E k \in 1..Len(s) : IsNaN(s[k])

\* A mean in place of the median.
RECURSIVE SumSeq(_)
SumSeq(s) == IF s = <<>> THEN Zero ELSE Add(s[1], SumSeq(Tail(s)))
MedianAsMean(s) ==
    IF Len(s) = 0 THEN NaN ELSE Div(SumSeq(s), Int2Float(Len(s)))

\* The lower central element of an even-length sequence, no averaging.
MedianLower(s) ==
    IF Len(s) = 0 \/ HasNaN(s) THEN NaN
    ELSE Sort(s)[(Len(s) + 1) \div 2]

\* numpy.median: NaN for an empty array (with a RuntimeWarning, no
\* exception) and for an array holding a NaN; else the middle element of
\* the sorted array, or the mean of the two middle elements.
Median(s) ==
    IF Len(s) = 0 THEN NaN
    ELSE IF HasNaN(s) THEN NaN
    ELSE LET t == Sort(s)
             n == Len(s)
         IN  IF n % 2 = 1 THEN t[(n + 1) \div 2]
             ELSE Div(Add(t[n \div 2], t[n \div 2 + 1]), Int2Float(2))

\* The built-in without the comparison: always its first argument.
PyMaxFirst(a, b) == a

\* Python's max(a, b): b if b > a, else a (so a NaN first argument wins).
PyMax(a, b) == IF Less(a, b) THEN b ELSE a

\* Line 99: max(np.median(stats) / EXPECTED_MEDIAN, 1)
InflationFactor(s) == PyMax(Div(Median(s), EXPECTED_MEDIAN), One)

\* The formula with the offset -1 dropped.
Lambda1000NoOffset(l, ncase, ncontrol) ==
    Add(One, Mul(Mul(l,
        Add(Div(One, Int2Float(ncase)), Div(One, Int2Float(ncontrol)))),
        Int2Float(500)))

\* Line 102: 1 + (inflation_factor - 1) * (1/ncase + 1/ncontrol) * 500
Lambda1000(l, ncase, ncontrol) ==
    Add(One, Mul(Mul(Sub(l, One),
        Add(Div(One, Int2Float(ncase)), Div(One, Int2Float(ncontrol)))),
        Int2Float(500)))

\* The decimal places of the reported values.
Places == 6

RECURSIVE Pow10(_)
Pow10(k) == IF k = 0 THEN 1 ELSE 10 * Pow10(k - 1)

\* <<floor(acc * 10^places + r * 10^places / d), remainder>>, digit by digit.
RECURSIVE Scale(_, _, _, _)
Scale(acc, r, d, places) ==
    IF places = 0 THEN <<acc, r>>
    ELSE Scale(acc * 10 + (r * 10) \div d, (r * 10) % d, d, places - 1)

\* "{:.6f}".format(round(x, 6)): x to the nearest multiple of 10^-6 (ties
\* to even); nan and inf are printed as such.
Format6(x) ==
    IF ~IsFinite(x) THEN x
    ELSE LET a  == Abs(x[1])
             sc == Scale(a \div x[2], a % x[2], x[2], Places)
             up == 2 * sc[2] > x[2] \/ (2 * sc[2] = x[2] /\ sc[1] % 2 = 1)
             k  == IF up THEN sc[1] + 1 ELSE sc[1]
         IN  Rat(Sgn(x[1]) * k, Pow10(Places))

\* The two-sided branch without the halving.
HalveNot(x) == x

\* Line 83: stats = 0.5 * stats
Halve(x) == Mul(Half, x)

\* Lines 80-95 on one value: the p-value branch (halved unless one-sided,
\* then norm.ppf(1 - p)), then the square unless --chi2.
ToChisq(a, x) ==
    LET z == IF a.p_value
             THEN NormPpf(Sub(One, IF ~a.one_sided THEN Halve(x) ELSE x))
             ELSE x
    IN  IF ~a.chi2 THEN Square(z) ELSE z

Convert(a, s) == [k \in 1..Len(s) |-> ToChisq(a, s[k])]

\* --------------------------------------------------------------- files
TAB == "\t"
COMMA == ","
SPACE == " "

\* re.split on a line (a sequence of characters): at every character of
\* seps, or, with merge, at every maximal run of them ("\s+").  A
\* separator at either end leaves an empty name there, as in Python.
RECURSIVE SplitChars(_, _, _)
SplitChars(line, seps, merge) ==
    IF line = <<>> THEN << <<>> >>
    ELSE LET rest == SplitChars(Tail(line), seps, merge)
         IN  IF Head(line) \in seps
             THEN IF merge /\ Len(line) > 1 /\ line[2] \in seps
                  THEN rest
                  ELSE << <<>> >> \o rest
             ELSE << <<Head(line)>> \o rest[1] >> \o Tail(rest)

Names(tokens) == {tokens[k] : k \in 1..Len(tokens)}

\* Lines 121-122: the header names check_args looks the fields up in:
\* the first line split at "\s+" with -w, and at "\t" otherwise (the -d
\* delimiter is not consulted).
CheckedHeader(a, line) ==
    IF a.whitespace THEN Names(SplitChars(line, {SPACE, TAB}, TRUE))
    ELSE Names(SplitChars(line, {TAB}, FALSE))

\* Lines 55-62: the column names pandas.read_csv finds: the first line
\* split at runs of white space (delim_whitespace=True) or at every
\* args.delim (sep=args.delim); an empty name is never a requested one.
ParsedHeader(a, line) ==
    (IF a.whitespace THEN Names(SplitChars(line, {SPACE, TAB}, TRUE))
     ELSE Names(SplitChars(line, {a.delim}, FALSE))) \ { <<>> }

\* Lines 38, 49: the columns asked of read_csv (usecols).
ColsToExtract(a) ==
    IF a.extract THEN {a.field, a.snp_field} ELSE {a.field}

\* The marker cell pandas reads as missing.
NA == "NA"

\* Line 66: data.dropna() drops a row with a missing value in any of the
\* columns read (the statistic; the marker too when --extract is given).
RECURSIVE DropNa(_, _)
DropNa(a, data) ==
    IF data = <<>> THEN <<>>
    ELSE IF ~IsNaN(data[1].val) /\ (a.extract => data[1].snp # NA)
         THEN <<data[1]>> \o DropNa(a, Tail(data))
         ELSE DropNa(a, Tail(data))

\* Line 72: data[data[args.snp_field].isin(snp_to_extract)]
RECURSIVE IsIn(_, _)
IsIn(markerSet, data) ==
    IF data = <<>> THEN <<>>
    ELSE IF data[1].snp \in markerSet
         THEN <<data[1]>> \o IsIn(markerSet, Tail(data))
         ELSE IsIn(markerSet, Tail(data))

\* Lines 71-72: the rows whose marker is in the list, when --extract.
Extract(a, markerSet, data) ==
    IF a.extract THEN IsIn(markerSet, data) ELSE data

\* Line 77: stats = data[args.field]
Column(data) == [k \in 1..Len(data) |-> data[k].val]

\* --------------------------------------------------------------- state
VARIABLES
    args,             \* the parsed command line (argparse.Namespace)
    files,            \* the input files named by -i, in order
    markers,          \* the file named by --extract
    pc,               \* where the process is
    idx,              \* the loop variable fn, as an index into files
    opened,           \* the files opened so far (0: the --extract file)
    log,              \* the records logged so far
    snp_to_extract,   \* main's set of markers to keep
    stats,            \* main's local: the last file's statistics
    inflation_factor, \* main's local
    lambda1000        \* main's local

vars == <<args, files, markers, pc, idx, opened, log, snp_to_extract,
          stats, inflation_factor, lambda1000>>

\* ---------------------------------------------------------- the inputs
FIELD == <<"s">>
SNP_FIELD == <<"m">>
GoodHeader == <<"s", TAB, "m">>

SeqsUpTo(S, n) == UNION {[1..k -> S] : k \in 0..n}

Row(snp, val) == [snp |-> snp, val |-> val]
File(header, rows) == [exists |-> TRUE, header |-> header, rows |-> rows]
MissingFile == [exists |-> FALSE, header |-> <<>>, rows |-> <<>>]
NoMarkers == [exists |-> FALSE, ids |-> {}]

Args(w, d, c, p, o, n, e) ==
    [whitespace |-> w, delim |-> d, field |-> FIELD, snp_field |-> SNP_FIELD,
     chi2 |-> c, p_value |-> p, one_sided |-> o, normalized |-> n,
     extract |-> e]

\* The statistics a cell of the column may hold.
RawValues == {Rat(-1, 1), Zero, Rat(1, 8), Half, Rat(2, 1)}

\* The valid counts of -n.
Counts == {k * CountStep : k \in 1..MaxCount}

\* The four accepted semantics: --chi2, z/t, -p, -p --one-sided.
Modes ==
    {<<TRUE, FALSE, FALSE>>, <<FALSE, FALSE, FALSE>>,
     <<FALSE, TRUE, FALSE>>, <<FALSE, TRUE, TRUE>>}

ColumnFile(v) == File(GoodHeader, [k \in 1..Len(v) |-> Row("rs1", v[k])])

\* The estimator's family: one well-formed file in each of the four
\* semantics, with any column of at most MaxRows values (without -n and
\* with the smallest counts), or with a column of at most two values and
\* any pair of counts.
EstimateInputs ==
    {<<Args(FALSE, TAB, m[1], m[2], m[3], n, FALSE), ColumnFile(v)>> :
        m \in Modes, n \in {<<>>, <<CountStep, CountStep>>},
        v \in SeqsUpTo(RawValues, MaxRows)}
    \cup
    {<<Args(FALSE, TAB, m[1], m[2], m[3], n, FALSE), ColumnFile(v)>> :
        m \in Modes, n \in Counts \X Counts, v \in SeqsUpTo(RawValues, 2)}

\* The control-flow family: up to MaxFiles files, each missing, without
\* the statistic column, or well formed with no row, only NA rows, one
\* row or three rows; every combination of the flags; -n absent, with a
\* count of 0, or valid; --extract absent, naming a missing file, or
\* naming a list.
FlowRows ==
    { <<>>,
      << Row("rs1", NaN) >>,
      << Row("rs1", Half) >>,
      << Row("rs1", Rat(2, 1)), Row("rs2", Rat(1, 8)), Row(NA, Zero) >> }

FlowFile ==
    {MissingFile, File(<<"m">>, <<>>)} \cup {File(GoodHeader, r) : r \in FlowRows}

MarkerList == [exists |-> TRUE, ids |-> {"rs1"}]

FlowInputs ==
    {<<Args(FALSE, TAB, c, p, o, n, e[1]), e[2]>> :
        c \in BOOLEAN, p \in BOOLEAN, o \in BOOLEAN,
        n \in {<<>>, <<0, CountStep>>, <<CountStep, MaxCount * CountStep>>},
        e \in {<<FALSE, NoMarkers>>, <<TRUE, NoMarkers>>, <<TRUE, MarkerList>>}}

\* The header family: one file whose first line is any line of at most
\* MaxHeaderLen characters, read with -w or with -d tab or comma, with
\* and without --extract.
Alphabet == {"s", "m", TAB, COMMA, SPACE}

HeaderFiles ==
    { << File(h, << Row("rs1", Half) >>) >> :
        h \in SeqsUpTo(Alphabet, MaxHeaderLen) \ { <<>> } }

HeaderArgs ==
    {Args(w, d, FALSE, FALSE, FALSE, <<>>, e) :
        w \in BOOLEAN, d \in {TAB, COMMA}, e \in BOOLEAN}

Start ==
    /\ pc = "check_files"
    /\ idx = 1
    /\ opened = {}
    /\ log = <<>>
    /\ snp_to_extract = {}
    /\ stats = <<>>
    /\ inflation_factor = NaN
    /\ lambda1000 = NaN

InitFlow ==
    /\ \E inp \in FlowInputs : args = inp[1] /\ markers = inp[2]
    /\ files \in SeqsUpTo(FlowFile, MaxFiles) \ { <<>> }
    /\ Start

InitHeader ==
    /\ args \in HeaderArgs
    /\ files \in HeaderFiles
    /\ markers = MarkerList
    /\ Start

InitEstimate ==
    /\ \E inp \in EstimateInputs : args = inp[1] /\ files = << inp[2] >>
    /\ markers = NoMarkers
    /\ Start

Init == InitFlow \/ InitHeader

\* ------------------------------------------------------------- actions
Record(kind, file, value) == [kind |-> kind, file |-> file, value |-> value]

\* logger.critical(...) followed by sys.exit(1)
Critical(kind, file) ==
    /\ log' = Append(log, Record(kind, file, NaN))
    /\ pc' = "exit1"

\* The loop over the files goes on after a file that fails its checks.
CheckFileSkip ==
    /\ pc = "check_files"
    /\ idx <= Len(files)
    /\ opened' = IF files[idx].exists THEN opened \cup {idx} ELSE opened
    /\ idx' = idx + 1
    /\ pc' = IF idx = Len(files) THEN "check_extract" ELSE "check_files"
    /\ UNCHANGED <<args, files, markers, log, snp_to_extract, stats,
                   inflation_factor, lambda1000>>

\* Lines 113-134: one iteration of check_args' loop over the files.
CheckFile ==
    /\ pc = "check_files"
    /\ idx <= Len(files)
    /\ LET f == files[idx]
           header == CheckedHeader(args, f.header)
       IN  IF ~f.exists
           THEN /\ Critical("no_such_file", idx)
                /\ UNCHANGED <<opened, idx>>
           ELSE /\ opened' = opened \cup {idx}
                /\ IF args.field \notin header
                   THEN Critical("no_field", idx) /\ UNCHANGED idx
                   ELSE IF args.extract /\ args.snp_field \notin header
                   THEN Critical("no_snp_field", idx) /\ UNCHANGED idx
                   ELSE /\ idx' = idx + 1
                        /\ pc' = IF idx = Len(files) THEN "check_extract"
                                 ELSE "check_files"
                        /\ UNCHANGED log
    /\ UNCHANGED <<args, files, markers, snp_to_extract, stats,
                   inflation_factor, lambda1000>>

\* Lines 136-140: the marker list must exist.
CheckExtract ==
    /\ pc = "check_extract"
    /\ IF args.extract /\ ~markers.exists
       THEN Critical("no_such_file", 0)
       ELSE pc' = "check_one_sided" /\ UNCHANGED log
    /\ UNCHANGED <<args, files, markers, idx, opened, snp_to_extract, stats,
                   inflation_factor, lambda1000>>

\* Lines 142-145: --one-sided needs -p.
CheckOneSided ==
    /\ pc = "check_one_sided"
    /\ IF args.one_sided /\ ~args.p_value
       THEN Critical("one_sided_without_p", 0)
       ELSE pc' = "check_chi2" /\ UNCHANGED log
    /\ UNCHANGED <<args, files, markers, idx, opened, snp_to_extract, stats,
                   inflation_factor, lambda1000>>

\* Lines 147-150: --chi2 excludes -p.
CheckChi2 ==
    /\ pc = "check_chi2"
    /\ IF args.chi2 /\ args.p_value
       THEN Critical("chi2_with_p", 0)
       ELSE pc' = "check_normalized" /\ UNCHANGED log
    /\ UNCHANGED <<args, files, markers, idx, opened, snp_to_extract, stats,
                   inflation_factor, lambda1000>>

\* Lines 152-156: the counts of -n are positive.
CheckNormalized ==
    /\ pc = "check_normalized"
    /\ IF args.normalized # <<>>
          /\ (args.normalized[1] <= 0 \/ args.normalized[2] <= 0)
       THEN Critical("bad_counts", 0)
       ELSE pc' = "setup" /\ UNCHANGED log
    /\ UNCHANGED <<args, files, markers, idx, opened, snp_to_extract, stats,
                   inflation_factor, lambda1000>>

\* Lines 37-49: main after check_args: the marker list is read.
Setup ==
    /\ pc = "setup"
    /\ IF args.extract
       THEN /\ snp_to_extract' = markers.ids
            /\ opened' = opened \cup {0}
       ELSE UNCHANGED <<snp_to_extract, opened>>
    /\ idx' = 1
    /\ pc' = "loop"
    /\ UNCHANGED <<args, files, markers, log, stats, inflation_factor,
                   lambda1000>>

\* The column appended to the statistics of the files before it.
RawStatsPooled(data) == stats \o Column(data)

\* Line 77: the statistics of this file's rows.
RawStats(data) == Column(data)

\* Lines 51-103: one iteration of main's loop over the files.  read_csv
\* raises (no such file, or a requested column that the parsed header
\* lacks) and the exception ends the process; otherwise lambda, and
\* lambda1000 with -n, are computed and logged.
ProcessFile ==
    /\ pc = "loop"
    /\ idx <= Len(files)
    /\ LET f == files[idx]
       IN  IF ~f.exists
           THEN /\ pc' = "raised"
                /\ UNCHANGED <<idx, opened, log, stats, inflation_factor,
                               lambda1000>>
           ELSE IF ~(ColsToExtract(args) \subseteq ParsedHeader(args, f.header))
           THEN /\ pc' = "raised"
                /\ opened' = opened \cup {idx}
                /\ UNCHANGED <<idx, log, stats, inflation_factor, lambda1000>>
           ELSE LET data   == f.rows
                    kept   == DropNa(args, data)
                    ext    == Extract(args, snp_to_extract, kept)
                    chisq  == Convert(args, RawStats(ext))
                    lambda == InflationFactor(chisq)
                    l1000  == Lambda1000(lambda, args.normalized[1],
                                         args.normalized[2])
                    log1   == Append(log, Record("na_removed", idx,
                                  Int2Float(Len(data) - Len(kept))))
                    log2   == IF args.extract
                              THEN Append(log1, Record("extracted", idx,
                                       Int2Float(Len(ext))))
                              ELSE log1
                    log3   == Append(log2,
                                  Record("lambda", idx, Format6(lambda)))
                IN  /\ opened' = opened \cup {idx}
                    /\ stats' = chisq
                    /\ inflation_factor' = lambda
                    /\ IF args.normalized # <<>>
                       THEN /\ lambda1000' = l1000
                            /\ log' = Append(log3, Record("lambda1000", idx,
                                          Format6(l1000)))
                       ELSE /\ log' = log3
                            /\ UNCHANGED lambda1000
                    /\ idx' = idx + 1
                    /\ pc' = IF idx = Len(files) THEN "exit0" ELSE "loop"
    /\ UNCHANGED <<args, files, markers, snp_to_extract>>

Next ==
    \/ CheckFile
    \/ CheckExtract
    \/ CheckOneSided
    \/ CheckChi2
    \/ CheckNormalized
    \/ Setup
    \/ ProcessFile

Spec == Init /\ [][Next]_vars

SpecEstimate == InitEstimate /\ [][Next]_vars

\* ---------------------------------------------------------- properties
Terminated == pc \in {"exit0", "exit1", "raised"}

\* The last iteration of main's loop ran to its end: stats and
\* inflation_factor are those of file idx - 1.
Computed == pc \in {"loop", "exit0"} /\ idx > 1

\* The value logged under `kind` for file i, if any.
Reported(kind, i) ==
    {log[k].value : k \in {j \in 1..Len(log) :
                              log[j].kind = kind /\ log[j].file = i}}

\* The sequence the estimator is given for file i: its rows without the
\* NA rows and, with --extract, without the markers outside the list.
EstimatorInput(i) ==
    Convert(args,
            Column(Extract(args, markers.ids, DropNa(args, files[i].rows))))

\* File i was handed to the estimator.
Estimated(i) == (pc \in {"loop", "exit0"} /\ idx > i) \/ Reported("lambda", i) # {}

\* C1: whenever the estimator is given an empty statistic sequence for a
\* file, the run ends in an error for that file: no lambda (NaN, 0 or any
\* number) is reported for it and the process does not finish successfully.
C1_EmptySequenceIsAnError ==
    \A i \in 1..Len(files) :
        (Estimated(i) /\ EstimatorInput(i) = <<>>)
            => (Reported("lambda", i) = {} /\ pc # "exit0")

\* A configuration error of the command line.
ConfigError(a) ==
    \/ a.chi2 /\ a.p_value
    \/ a.one_sided /\ ~a.p_value
    \/ a.normalized # <<>> /\ (a.normalized[1] <= 0 \/ a.normalized[2] <= 0)

\* C2: with a configuration error (--chi2 with -p, --one-sided without -p,
\* a case/control count <= 0) the process ends with a non-zero status and
\* no input file is opened, read or validated before the configuration
\* checks are made.
C2_ConfigErrorBeforeAnyFile ==
    ConfigError(args) =>
        /\ opened = {}
        /\ pc \notin {"setup", "loop", "exit0"}
        /\ (pc = "check_files" => idx = 1)

\* File i fails check_args' validation: it is missing, or its header as
\* check_args splits it lacks a required column.
FailsValidation(i) ==
    \/ ~files[i].exists
    \/ args.field \notin CheckedHeader(args, files[i].header)
    \/ args.extract /\ args.snp_field \notin CheckedHeader(args, files[i].header)

\* File i would yield a lambda on its own.
Valid(i) == ~FailsValidation(i)

FileErrors == {"no_field", "no_snp_field"}

\* The process ended on the validation error of an input file.
EndedOnFileError ==
    /\ pc = "exit1"
    /\ log # <<>>
    /\ log[Len(log)].file > 0
    /\ log[Len(log)].kind \in FileErrors \cup {"no_such_file"}

\* C4 as stated: when one input file fails its validation, the valid
\* files of the same invocation are still processed and their lambda
\* reported.
C4_ValidFilesStillProcessed ==
    EndedOnFileError =>
        \A i \in 1..Len(files) : Valid(i) => Reported("lambda", i) # {}

\* C4 as amended: when any input file fails its validation, the process
\* ends with status 1 on the first such file's diagnostic, inside
\* check_args: main's loop is never entered and no lambda is reported for
\* any file of the invocation.
C4_ValidationFailureAbortsAll ==
    (\E i \in 1..Len(files) : FailsValidation(i)) =>
        /\ pc \in {"check_files", "exit1"}
        /\ \A k \in 1..Len(log) : log[k].kind \notin {"lambda", "lambda1000"}
        /\ pc = "exit1" =>
              /\ EndedOnFileError
              /\ FailsValidation(log[Len(log)].file)
              /\ \A j \in 1..(log[Len(log)].file - 1) : Valid(j)

\* A run of two files that ended on the second one's validation error
\* while the first is valid and has statistics.
C4_Witness ==
    /\ EndedOnFileError
    /\ Len(files) = 2
    /\ Valid(1)
    /\ EstimatorInput(1) # <<>>
    /\ log[Len(log)].file = 2
    /\ ~ConfigError(args)

\* The lambda and lambda1000 that file i and the options determine.
LambdaOf(f) ==
    InflationFactor(Convert(args,
        Column(Extract(args, markers.ids, DropNa(args, f.rows)))))

\* C7: the lambda (and lambda1000) reported for an input file depends only
\* on that file's contents and the options: every reported value is the
\* one the file alone determines, so two files with the same contents get
\* the same values wherever they stand in the -i list.
C7_LambdaDependsOnFileOnly ==
    /\ \A i \in 1..Len(files) :
          /\ Reported("lambda", i) \subseteq {Format6(LambdaOf(files[i]))}
          /\ Reported("lambda1000", i) \subseteq
                (IF args.normalized = <<>> THEN {}
                 ELSE {Format6(Lambda1000(LambdaOf(files[i]),
                          args.normalized[1], args.normalized[2]))})
          /\ Estimated(i) => Reported("lambda", i) # {}
    /\ \A i, j \in 1..Len(files) :
          (files[i] = files[j] /\ Estimated(i) /\ Estimated(j))
              => /\ Reported("lambda", i) = Reported("lambda", j)
                 /\ Reported("lambda1000", i) = Reported("lambda1000", j)

\* Two different files were processed in one run, with -n, and got
\* different lambdas, the second after the first.
C7_Witness ==
    /\ pc = "exit0"
    /\ Len(files) = 2
    /\ args.normalized # <<>>
    /\ EstimatorInput(1) # <<>>
    /\ EstimatorInput(2) # <<>>
    /\ Reported("lambda", 1) # Reported("lambda", 2)
    /\ Reported("lambda1000", 2) # {}

\* The header names of a line split with the delimiter the run parses
\* with: white space with -w, the -d character otherwise.
HeaderByDelim(a, line) ==
    IF a.whitespace THEN Names(SplitChars(line, {SPACE, TAB}, TRUE))
    ELSE Names(SplitChars(line, {a.delim}, FALSE))

ColumnAbsent(i) ==
    \/ args.field \notin HeaderByDelim(args, files[i].header)
    \/ args.extract /\ args.snp_field \notin HeaderByDelim(args, files[i].header)

\* C9: a file is rejected with a missing-column error if and only if a
\* requested field name is absent from the header split with the
\* delimiter the run is configured to parse with; a file the parser reads
\* with the chosen -d is never rejected by the header validation.
C9_RejectedIffColumnAbsent ==
    \A i \in 1..Len(files) :
        files[i].exists =>
            /\ (\E k \in 1..Len(log) :
                    log[k].file = i /\ log[k].kind \in FileErrors)
                  => ColumnAbsent(i)
            /\ (pc \notin {"check_files", "exit1"} \/ (pc = "check_files" /\ idx > i))
                  => ~ColumnAbsent(i)

AllFinite(s) == \A k \in 1..Len(s) : IsFinite(s[k])

\* The lambda logged by the last iteration.
LastLambda == Reported("lambda", idx - 1)

\* C3: for every file whose chi-squared sequence is non-empty and finite
\* (an all-zero sequence included), the lambda computed and the lambda
\* reported are >= 1.0, in every semantics mode.
C3_LambdaAtLeastOne ==
    (Computed /\ stats # <<>> /\ AllFinite(stats)) =>
        /\ Leq(One, inflation_factor)
        /\ IsFinite(inflation_factor)
        /\ \A v \in LastLambda : Leq(One, v)
        /\ LastLambda # {}

\* An all-zero sequence from one-sided p-values was clamped up to 1.
C3_Witness ==
    /\ Computed
    /\ args.p_value /\ args.one_sided
    /\ Len(stats) = 3
    /\ \A k \in 1..Len(stats) : stats[k] = Zero
    /\ inflation_factor = One
    /\ LastLambda = {One}

\* The r-th order statistic of a NaN-free sequence: the element with
\* fewer than r elements below it and at least r elements not above it.
OrderStatistic(s, r) ==
    CHOOSE x \in {s[k] : k \in 1..Len(s)} :
        /\ Cardinality({k \in 1..Len(s) : Less(s[k], x)}) < r
        /\ Cardinality({k \in 1..Len(s) : Leq(s[k], x)}) >= r

\* The median as the claim words it.
CentralValue(s) ==
    LET n == Len(s)
    IN  IF n % 2 = 1 THEN OrderStatistic(s, (n + 1) \div 2)
        ELSE Div(Add(OrderStatistic(s, n \div 2),
                     OrderStatistic(s, n \div 2 + 1)), Int2Float(2))

\* The larger of two numbers.
Larger(a, b) == IF Leq(a, b) THEN b ELSE a

\* s with the elements at i and j exchanged.
Swap(s, i, j) ==
    [k \in 1..Len(s) |-> IF k = i THEN s[j] ELSE IF k = j THEN s[i] ELSE s[k]]

\* C5: for every non-empty chi-squared sequence (of numbers: no NaN), the
\* lambda is max(median / ExpectedMedian, 1.0) with the median the central
\* order statistic, or the mean of the two central ones; the reported
\* value is that number to 6 decimals; and exchanging any two elements
\* leaves the result unchanged (the exchanges generate every permutation,
\* and every sequence of the family is a column of some run).
C5_LambdaIsMedianRatio ==
    (Computed /\ stats # <<>> /\ ~HasNaN(stats)) =>
        /\ inflation_factor =
              Larger(Div(CentralValue(stats), EXPECTED_MEDIAN), One)
        /\ LastLambda = {Format6(inflation_factor)}
        /\ \A i, j \in 1..Len(stats) :
              InflationFactor(Swap(stats, i, j)) = inflation_factor

\* An even-length sequence whose two central values differ, above the
\* floor.
C5_Witness ==
    /\ Computed
    /\ Len(stats) = 4
    /\ ~HasNaN(stats)
    /\ OrderStatistic(stats, 2) # OrderStatistic(stats, 3)
    /\ Less(stats[2], stats[1])
    /\ Less(One, inflation_factor)
    /\ IsFinite(inflation_factor)

\* The column of raw values of the single file of the estimator's family.
RawColumn == Column(DropNa(args, files[1].rows))

OneSided(a) == [a EXCEPT !.one_sided = TRUE]

\* C6: converting p as a two-sided p-value gives the chi-squared value
\* that converting p / 2 as a one-sided p-value gives; so the file of
\* values xs run two-sided and the file of values xs / 2 run one-sided
\* have the same chi-squared sequence and the same lambda.
C6_TwoSidedIsOneSidedOfHalf ==
    (Computed /\ args.p_value /\ ~args.one_sided) =>
        LET halves == [k \in 1..Len(RawColumn) |->
                          Div(RawColumn[k], Int2Float(2))]
        IN  /\ stats = Convert(OneSided(args), halves)
            /\ inflation_factor = InflationFactor(Convert(OneSided(args), halves))

\* A two-sided run on p-values inside (0, 1) with a lambda above the floor.
C6_Witness ==
    /\ Computed
    /\ args.p_value /\ ~args.one_sided
    /\ Len(RawColumn) = 2
    /\ \A k \in 1..Len(RawColumn) :
          Less(Zero, RawColumn[k]) /\ Less(RawColumn[k], One)
    /\ RawColumn[1] # RawColumn[2]
    /\ Less(One, inflation_factor)
    /\ IsFinite(inflation_factor)

\* C8: for every file whose lambda is 1.0 (clamped or not) and every pair
\* of positive counts, lambda1000 is exactly 1.0 and is reported as such.
C8_Lambda1000OfOneIsOne ==
    (Computed /\ args.normalized # <<>> /\ inflation_factor = One) =>
        /\ lambda1000 = One
        /\ Reported("lambda1000", idx - 1) = {One}

\* A lambda clamped up to 1 with unequal counts.
C8_Witness ==
    /\ Computed
    /\ args.normalized # <<>>
    /\ args.normalized[1] # args.normalized[2]
    /\ stats # <<>>
    /\ Less(Div(Median(stats), EXPECTED_MEDIAN), One)
    /\ lambda1000 = One

Infs(s) == {k \in 1..Len(s) : s[k] = PosInf}

\* The largest finite value of s (s holds one).
MaxFinite(s) ==
    CHOOSE x \in {s[k] : k \in 1..Len(s)} :
        IsFinite(x) /\ \A k \in 1..Len(s) : IsFinite(s[k]) => Leq(s[k], x)

\* s with every +inf replaced by big.
Replaced(s, big) ==
    [k \in 1..Len(s) |-> IF s[k] = PosInf THEN big ELSE s[k]]

\* Finite values above x, near and far.
Above(x) == {Add(x, Rat(1, 8)), Add(x, One), Add(x, Int2Float(100))}

\* The infinities are a strict minority of a sequence of numbers.
InfMinority(s) ==
    /\ s # <<>>
    /\ \A k \in 1..Len(s) : IsFinite(s[k]) \/ s[k] = PosInf
    /\ 2 * Cardinality(Infs(s)) < Len(s)

\* C10: infinite chi-squared values are not trapped (the run goes on to
\* report a lambda) and, while strictly fewer than half of the values are
\* +inf and the rest finite, the lambda is finite and is the lambda of the
\* sequence with each +inf replaced by any finite value above the others.
C10_InfiniteMinorityIsHarmless ==
    (Computed /\ InfMinority(stats)) =>
        /\ IsFinite(inflation_factor)
        /\ LastLambda = {Format6(inflation_factor)}
        /\ \A big \in Above(MaxFinite(stats)) :
              InflationFactor(Replaced(stats, big)) = inflation_factor

\* p-values gave one +inf among four values, and a lambda above the floor.
C10_Witness ==
    /\ pc = "exit0"
    /\ args.p_value
    /\ Len(stats) = 4
    /\ Cardinality(Infs(stats)) = 1
    /\ InfMinority(stats)
    /\ Less(One, inflation_factor)
    /\ IsFinite(inflation_factor)

====
